---- MODULE Spec2Model ----
(***************************************************************************)
(* Model of the Solana HTTP server: the seven POST handlers of             *)
(* src/handlers.rs, the request validation of src/models.rs and the codec  *)
(* and instruction helpers of src/utils.rs.                                *)
(*                                                                         *)
(* Texts (base58 / base64 strings) are modelled by what a decoder sees of  *)
(* them: the encoding they were written in, their length in characters,    *)
(* whether every character and the padding are legal, and the bytes they   *)
(* stand for.  Byte strings that the handlers only carry around (keys,     *)
(* keypairs, signatures) are modelled as tagged blobs with their length;   *)
(* instruction data is a concrete sequence of bytes.                       *)
(***************************************************************************)
EXTENDS Integers, Sequences, FiniteSets, TLC

VARIABLES pc, sent, frame, resp, client

vars == <<pc, sent, frame, resp, client>>

(***************************************************************************)
(* Bounds of the model.                                                    *)
(***************************************************************************)
\* number of distinct well-formed sample keys (ids 1..NumKeys)
NumKeys == 2
\* number of requests that can be in flight at once
NWorkers == 2

Workers == 1..NWorkers

(***************************************************************************)
(* Public keys.  A Pubkey is 32 bytes; the model names a key by a small    *)
(* number k and gives it the 32 bytes k,k,...,k.                           *)
(***************************************************************************)
\* solana_sdk::system_program::id(): 32 zero bytes
SystemProgramId == 0
\* spl_token::id()
TokenProgramId == 200

UserKeys == 1..NumKeys
\* a 32-byte value that is not a point of the ed25519 curve
OffCurveKey == NumKeys + 1

IsOnCurve(k) == k \in UserKeys

PubkeyBytes(k) == [i \in 1..32 |-> k]

(***************************************************************************)
(* Byte blobs.                                                             *)
(***************************************************************************)
KeyBlob(k) == [tag |-> "key", n |-> 32, key |-> k]
KeypairBlob(s, p) == [tag |-> "keypair", n |-> 64, seed |-> s, pub |-> p]
SigBlob(s, p, m) == [tag |-> "sig", n |-> 64, seed |-> s, pubh |-> p, msg |-> m]
JunkBlob(n) == [tag |-> "junk", n |-> n]

(***************************************************************************)
(* u64 values are four 16-bit limbs, least significant first, so that the  *)
(* whole range 0..2^64-1 is representable.                                 *)
(***************************************************************************)
U64Zero == <<0, 0, 0, 0>>
U64One == <<1, 0, 0, 0>>
U64Billion == <<51712, 15258, 0, 0>>
U64Max == <<65535, 65535, 65535, 65535>>
U64Samples == {U64Zero, U64One, <<256, 0, 0, 0>>, U64Billion, <<0, 0, 1, 0>>, U64Max}

\* validator range(min = 1) on a u64
U64AtLeastOne(v) == \E i \in 1..4 : v[i] # 0

\* u64::to_le_bytes as bincode / the token instruction packer write it
U64ToLeBytes(v) ==
    <<v[1] % 256, v[1] \div 256, v[2] % 256, v[2] \div 256,
      v[3] % 256, v[3] \div 256, v[4] % 256, v[4] \div 256>>

\* u32::to_le_bytes of a small enum discriminant
U32ToLeBytes(d) ==
    <<d % 256, (d \div 256) % 256, (d \div 65536) % 256, (d \div 16777216) % 256>>

(***************************************************************************)
(* Texts.                                                                  *)
(***************************************************************************)
Text(enc, chars, wf, raw) == [enc |-> enc, chars |-> chars, wf |-> wf, raw |-> raw]

Ok(v) == [ok |-> TRUE, val |-> v, err |-> ""]
Err(e) == [ok |-> FALSE, val |-> 0, err |-> e]

\* bs58::decode(..).into_vec(): every character must be in the alphabet
Bs58Decode(t) ==
    IF t.enc = "base58" /\ t.wf THEN Ok(t.raw) ELSE Err("Invalid Base58 string")

\* number of base58 characters of a sample key: zero bytes encode as '1' each
Base58Len(k) == IF k = 0 THEN 32 ELSE 44

pubkey_to_base58(k) == Text("base58", Base58Len(k), TRUE, KeyBlob(k))

\* Pubkey::from_str: at most 44 characters, base58, exactly 32 bytes
base58_to_pubkey(t) ==
    IF t.chars > 44 THEN Err("Invalid public key: WrongSize")
    ELSE LET d == Bs58Decode(t) IN
         IF ~d.ok THEN Err("Invalid public key: Invalid")
         ELSE IF d.val.n # 32 THEN Err("Invalid public key: WrongSize")
         ELSE Ok(d.val.key)

\* Keypair::from_bytes: the public half must decompress to a curve point
KeypairFromBytes(b) ==
    IF IsOnCurve(b.pub) THEN Ok([seed |-> b.seed, pub |-> b.pub])
    ELSE Err("signature error")

base58_to_keypair(t) ==
    LET d == Bs58Decode(t) IN
    IF ~d.ok THEN Err("Invalid secret key: decode")
    ELSE IF d.val.n # 64 THEN Err("Invalid secret key length")
    ELSE KeypairFromBytes(d.val)

\* instruction data: a concrete sequence of bytes
DataBlob(bytes) == [tag |-> "data", n |-> Len(bytes), bytes |-> bytes]

\* general_purpose::STANDARD.encode: 4 characters per 3 bytes, padded
bytes_to_base64(b) == Text("base64", 4 * ((b.n + 2) \div 3), TRUE, b)

\* bs58::encode(..).into_string() of a 64-byte value
bytes_to_base58(b) == Text("base58", 88, TRUE, b)

\* general_purpose::STANDARD.decode.  A text written in another encoding whose
\* characters all belong to the base64 alphabet decodes only if its length is
\* a multiple of four, and then to other bytes.
base64_to_bytes(t) ==
    IF ~t.wf THEN Err("Invalid base64: invalid byte")
    ELSE IF t.enc = "base64" THEN Ok(t.raw)
    ELSE IF t.chars % 4 = 0 THEN Ok(JunkBlob((t.chars \div 4) * 3))
    ELSE Err("Invalid base64: invalid length")

(***************************************************************************)
(* ed25519.  A signature is determined by the signing seed, the public key *)
(* hashed into it and the message; it verifies under a public key exactly  *)
(* when that key is a curve point, belongs to the seed and is the one that *)
(* was hashed.  Sample key k is the public key of seed k.                  *)
(***************************************************************************)
\* Keypair::sign_message
Ed25519Sign(kp, msg) == SigBlob(kp.seed, kp.pub, msg)

\* Signature::verify(pubkey_bytes, message_bytes)
Ed25519Verify(sig, pk, msg) ==
    /\ IsOnCurve(pk)
    /\ sig.tag = "sig"
    /\ sig.seed = pk
    /\ sig.pubh = pk
    /\ sig.msg = msg

\* Signature::try_from(&[u8]): exactly 64 bytes
SignatureTryFrom(b) == IF b.n = 64 THEN Ok(b) ELSE Err("Invalid signature format")

(***************************************************************************)
(* Instruction helpers of utils.rs: (program_id, data).                    *)
(***************************************************************************)
\* faulty variant: the discriminant is written as one byte
create_transfer_instruction_u8(from, to, lamports) ==
    [program_id |-> SystemProgramId, data |-> <<2>> \o U64ToLeBytes(lamports)]

\* system_instruction::transfer: bincode of SystemInstruction::Transfer
create_transfer_instruction(from, to, lamports) ==
    [program_id |-> SystemProgramId,
     data |-> U32ToLeBytes(2) \o U64ToLeBytes(lamports)]

\* token_instruction::mint_to: TokenInstruction::MintTo { amount }.pack()
create_mint_instruction(mint, destination, authority, amount) ==
    [program_id |-> TokenProgramId, data |-> <<7>> \o U64ToLeBytes(amount)]

\* token_instruction::transfer: TokenInstruction::Transfer { amount }.pack()
create_token_transfer_instruction(source, destination, owner, amount) ==
    [program_id |-> TokenProgramId, data |-> <<3>> \o U64ToLeBytes(amount)]

\* token_instruction::initialize_mint with freeze authority Some(mint_authority)
create_initialize_mint_instruction(mint, decimals, mint_authority) ==
    [program_id |-> TokenProgramId,
     data |-> <<0, decimals>> \o PubkeyBytes(mint_authority)
                 \o <<1>> \o PubkeyBytes(mint_authority)]

(***************************************************************************)
(* models.rs: the response envelope and the validation of each request.    *)
(***************************************************************************)
Some(v) == [some |-> TRUE, val |-> v]
None == [some |-> FALSE]

ApiSuccess(data) == [success |-> TRUE, data |-> Some(data), error |-> None]

\* faulty variant: a failure keeps a data object beside its error
ApiErrorWithData(message) ==
    [success |-> FALSE, data |-> Some([program_id |-> "", accounts |-> <<>>]),
     error |-> Some(message)]

ApiError(message) == [success |-> FALSE, data |-> None, error |-> Some(message)]

AccountMeta(pubkey, is_signer, is_writable) ==
    [pubkey |-> pubkey, is_signer |-> is_signer, is_writable |-> is_writable]

InstructionResponse(ix, accounts) ==
    [program_id |-> pubkey_to_base58(ix.program_id),
     accounts |-> accounts,
     instruction_data |-> bytes_to_base64(DataBlob(ix.data))]

\* validate(length(min, max)) of a text field
LengthIn(t, min, max) == min <= t.chars /\ t.chars <= max

\* faulty variant: the decimals are not validated
CreateTokenRequestValidNoRange(r) ==
    /\ LengthIn(r.mint_authority, 32, 44)
    /\ LengthIn(r.mint, 32, 44)

CreateTokenRequestValid(r) ==
    /\ LengthIn(r.mint_authority, 32, 44)
    /\ LengthIn(r.mint, 32, 44)
    /\ 0 <= r.decimals /\ r.decimals <= 18

\* faulty variant: the amount is not validated
MintTokenRequestValidNoRange(r) ==
    /\ LengthIn(r.mint, 32, 44)
    /\ LengthIn(r.destination, 32, 44)
    /\ LengthIn(r.authority, 32, 44)

MintTokenRequestValid(r) ==
    /\ LengthIn(r.mint, 32, 44)
    /\ LengthIn(r.destination, 32, 44)
    /\ LengthIn(r.authority, 32, 44)
    /\ U64AtLeastOne(r.amount)

SignMessageRequestValid(r) ==
    /\ Len(r.message) >= 1
    /\ r.secret.chars >= 32

VerifyMessageRequestValid(r) ==
    /\ Len(r.message) >= 1
    /\ r.signature.chars >= 1
    /\ LengthIn(r.pubkey, 32, 44)

SendSolRequestValid(r) ==
    /\ LengthIn(r.from, 32, 44)
    /\ LengthIn(r.to, 32, 44)
    /\ U64AtLeastOne(r.lamports)

SendTokenRequestValid(r) ==
    /\ LengthIn(r.destination, 32, 44)
    /\ LengthIn(r.mint, 32, 44)
    /\ LengthIn(r.owner, 32, 44)
    /\ U64AtLeastOne(r.amount)

(***************************************************************************)
(* handlers.rs.  Each handler validates, then parses its fields in a fixed *)
(* order, then builds the response; the three stages are given per handler *)
(* and the handler is their composition.                                   *)
(***************************************************************************)
ValidationError == ApiError(<<"Validation error", "">>)

\* the match of one base58_to_pubkey call: Err(e) => "<label>: e"
ParseField(label, t) ==
    LET p == base58_to_pubkey(t) IN
    IF p.ok THEN p ELSE Err(<<label, p.err>>)

\* ---- create_token ----
create_token_parse(r) ==
    LET mint_authority == ParseField("Invalid mint authority", r.mint_authority)
        mint == ParseField("Invalid mint", r.mint)
    IN  IF ~mint_authority.ok THEN mint_authority
        ELSE IF ~mint.ok THEN mint
        ELSE Ok([mint_authority |-> mint_authority.val, mint |-> mint.val])

create_token_build(r, k) ==
    ApiSuccess(InstructionResponse(
        create_initialize_mint_instruction(k.mint, r.decimals, k.mint_authority),
        <<AccountMeta(pubkey_to_base58(k.mint), FALSE, TRUE),
          AccountMeta(pubkey_to_base58(k.mint_authority), TRUE, FALSE)>>))

create_token(r) ==
    IF ~CreateTokenRequestValid(r) THEN ValidationError
    ELSE LET p == create_token_parse(r) IN
         IF ~p.ok THEN ApiError(p.err) ELSE create_token_build(r, p.val)

\* ---- mint_token ----
mint_token_parse(r) ==
    LET mint == ParseField("Invalid mint", r.mint)
        destination == ParseField("Invalid destination", r.destination)
        authority == ParseField("Invalid authority", r.authority)
    IN  IF ~mint.ok THEN mint
        ELSE IF ~destination.ok THEN destination
        ELSE IF ~authority.ok THEN authority
        ELSE Ok([mint |-> mint.val, destination |-> destination.val,
                 authority |-> authority.val])

\* faulty variant: the authority is listed first
mint_token_build_reordered(r, k) ==
    ApiSuccess(InstructionResponse(
        create_mint_instruction(k.mint, k.destination, k.authority, r.amount),
        <<AccountMeta(pubkey_to_base58(k.authority), TRUE, FALSE),
          AccountMeta(pubkey_to_base58(k.mint), FALSE, TRUE),
          AccountMeta(pubkey_to_base58(k.destination), FALSE, TRUE)>>))

mint_token_build(r, k) ==
    ApiSuccess(InstructionResponse(
        create_mint_instruction(k.mint, k.destination, k.authority, r.amount),
        <<AccountMeta(pubkey_to_base58(k.mint), FALSE, TRUE),
          AccountMeta(pubkey_to_base58(k.destination), FALSE, TRUE),
          AccountMeta(pubkey_to_base58(k.authority), TRUE, FALSE)>>))

mint_token(r) ==
    IF ~MintTokenRequestValid(r) THEN ValidationError
    ELSE LET p == mint_token_parse(r) IN
         IF ~p.ok THEN ApiError(p.err) ELSE mint_token_build(r, p.val)

\* ---- sign_message ----
sign_message_parse(r) ==
    LET kp == base58_to_keypair(r.secret) IN
    IF kp.ok THEN kp ELSE Err(<<"Invalid secret key", kp.err>>)

\* faulty variant: the signature is returned in base58
sign_message_build_base58(r, kp) ==
    ApiSuccess([signature |-> bytes_to_base58(Ed25519Sign(kp, r.message)),
                public_key |-> pubkey_to_base58(kp.pub),
                message |-> r.message])

sign_message_build(r, kp) ==
    ApiSuccess([signature |-> bytes_to_base64(Ed25519Sign(kp, r.message)),
                public_key |-> pubkey_to_base58(kp.pub),
                message |-> r.message])

sign_message(r) ==
    IF ~SignMessageRequestValid(r) THEN ValidationError
    ELSE LET p == sign_message_parse(r) IN
         IF ~p.ok THEN ApiError(p.err) ELSE sign_message_build(r, p.val)

\* ---- verify_message ----
verify_message_parse(r) ==
    LET pubkey == ParseField("Invalid public key", r.pubkey)
        signature_bytes == base64_to_bytes(r.signature)
        signature == SignatureTryFrom(signature_bytes.val)
    IN  IF ~pubkey.ok THEN pubkey
        ELSE IF ~signature_bytes.ok THEN Err(<<"Invalid signature", signature_bytes.err>>)
        ELSE IF ~signature.ok THEN Err(<<"Invalid signature format", signature.err>>)
        ELSE Ok([pubkey |-> pubkey.val, signature |-> signature.val])

\* faulty variant: a signature that does not verify is reported as an error
verify_message_build_strict(r, k) ==
    IF Ed25519Verify(k.signature, k.pubkey, r.message)
    THEN ApiSuccess([valid |-> TRUE, message |-> r.message, pubkey |-> r.pubkey])
    ELSE ApiError(<<"Invalid signature", "verification failed">>)

verify_message_build(r, k) ==
    ApiSuccess([valid |-> Ed25519Verify(k.signature, k.pubkey, r.message),
                message |-> r.message,
                pubkey |-> r.pubkey])

verify_message(r) ==
    IF ~VerifyMessageRequestValid(r) THEN ValidationError
    ELSE LET p == verify_message_parse(r) IN
         IF ~p.ok THEN ApiError(p.err) ELSE verify_message_build(r, p.val)

\* ---- send_sol ----
send_sol_parse(r) ==
    LET from == ParseField("Invalid from address", r.from)
        to == ParseField("Invalid to address", r.to)
    IN  IF ~from.ok THEN from
        ELSE IF ~to.ok THEN to
        ELSE Ok([from |-> from.val, to |-> to.val])

send_sol_build(r, k) ==
    ApiSuccess(InstructionResponse(
        create_transfer_instruction(k.from, k.to, r.lamports),
        <<AccountMeta(pubkey_to_base58(k.from), TRUE, TRUE),
          AccountMeta(pubkey_to_base58(k.to), FALSE, TRUE)>>))

send_sol(r) ==
    IF ~SendSolRequestValid(r) THEN ValidationError
    ELSE LET p == send_sol_parse(r) IN
         IF ~p.ok THEN ApiError(p.err) ELSE send_sol_build(r, p.val)

\* ---- send_token ----
send_token_parse(r) ==
    LET destination == ParseField("Invalid destination", r.destination)
        mint == ParseField("Invalid mint", r.mint)
        owner == ParseField("Invalid owner", r.owner)
    IN  IF ~destination.ok THEN destination
        ELSE IF ~mint.ok THEN mint
        ELSE IF ~owner.ok THEN owner
        ELSE Ok([destination |-> destination.val, mint |-> mint.val,
                 owner |-> owner.val])

send_token_build(r, k) ==
    LET source == k.owner IN
    ApiSuccess(InstructionResponse(
        create_token_transfer_instruction(source, k.destination, k.owner, r.amount),
        <<AccountMeta(pubkey_to_base58(source), FALSE, TRUE),
          AccountMeta(pubkey_to_base58(k.destination), FALSE, TRUE),
          AccountMeta(pubkey_to_base58(k.owner), TRUE, FALSE)>>))

send_token(r) ==
    IF ~SendTokenRequestValid(r) THEN ValidationError
    ELSE LET p == send_token_parse(r) IN
         IF ~p.ok THEN ApiError(p.err) ELSE send_token_build(r, p.val)

\* ---- generate_keypair ----
\* the response for the keypair that Keypair::new() drew
generate_keypair(k) ==
    ApiSuccess([pubkey |-> pubkey_to_base58(k),
                secret |-> bytes_to_base58(KeypairBlob(k, k))])

(***************************************************************************)
(* Dispatch on the route of a request (main.rs).                           *)
(***************************************************************************)
ValidateOf(r) ==
    CASE r.kind = "create_token" -> CreateTokenRequestValid(r)
      [] r.kind = "mint_token" -> MintTokenRequestValid(r)
      [] r.kind = "sign_message" -> SignMessageRequestValid(r)
      [] r.kind = "verify_message" -> VerifyMessageRequestValid(r)
      [] r.kind = "send_sol" -> SendSolRequestValid(r)
      [] r.kind = "send_token" -> SendTokenRequestValid(r)

ParseOf(r) ==
    CASE r.kind = "create_token" -> create_token_parse(r)
      [] r.kind = "mint_token" -> mint_token_parse(r)
      [] r.kind = "sign_message" -> sign_message_parse(r)
      [] r.kind = "verify_message" -> verify_message_parse(r)
      [] r.kind = "send_sol" -> send_sol_parse(r)
      [] r.kind = "send_token" -> send_token_parse(r)

BuildOf(r, k) ==
    CASE r.kind = "create_token" -> create_token_build(r, k)
      [] r.kind = "mint_token" -> mint_token_build(r, k)
      [] r.kind = "sign_message" -> sign_message_build(r, k)
      [] r.kind = "verify_message" -> verify_message_build(r, k)
      [] r.kind = "send_sol" -> send_sol_build(r, k)
      [] r.kind = "send_token" -> send_token_build(r, k)

\* the response of the route's handler to request r processed alone
Respond(r) ==
    CASE r.kind = "create_token" -> create_token(r)
      [] r.kind = "mint_token" -> mint_token(r)
      [] r.kind = "sign_message" -> sign_message(r)
      [] r.kind = "verify_message" -> verify_message(r)
      [] r.kind = "send_sol" -> send_sol(r)
      [] r.kind = "send_token" -> send_token(r)

(***************************************************************************)
(* Sample inputs: what a client may put in each field.                     *)
(***************************************************************************)
KeyText(k) == Text("base58", 44, TRUE, KeyBlob(k))
\* too short and too long for the length validation
ShortText == Text("base58", 10, TRUE, JunkBlob(7))
LongText == Text("base58", 50, TRUE, JunkBlob(36))
\* 44 characters, one of them outside the base58 alphabet
BadCharText == Text("base58", 44, FALSE, JunkBlob(0))
\* legal base58 of legal length that decodes to 31 bytes
WrongSizeText == Text("base58", 43, TRUE, JunkBlob(31))

PubkeyTexts ==
    {KeyText(k) : k \in UserKeys} \cup {ShortText, LongText, BadCharText, WrongSizeText}

KeypairText(s, p) == Text("base58", 88, TRUE, KeypairBlob(s, p))

SecretTexts ==
    {KeypairText(k, k) : k \in UserKeys}
    \cup {KeypairText(1, 2), KeypairText(1, OffCurveKey),
          Text("base58", 20, TRUE, JunkBlob(15)),
          Text("base58", 88, FALSE, JunkBlob(0)),
          KeyText(1)}

Messages == {"", "hi", "bye"}

SignatureText(b) == Text("base64", 88, TRUE, b)

SignatureTexts ==
    {SignatureText(SigBlob(k, k, m)) : k \in UserKeys, m \in {"hi", "bye"}}
    \cup {SignatureText(JunkBlob(64)),
          Text("base64", 84, TRUE, JunkBlob(63)),
          Text("base64", 88, FALSE, JunkBlob(0)),
          Text("base64", 0, TRUE, JunkBlob(0)),
          Text("base58", 88, TRUE, SigBlob(1, 1, "hi")),
          Text("base58", 87, TRUE, SigBlob(1, 1, "bye"))}

DecimalsSamples == {0, 9, 10, 18, 19, 255}

CreateTokenRequests ==
    [kind : {"create_token"}, mint_authority : PubkeyTexts, mint : PubkeyTexts,
     decimals : DecimalsSamples]

MintTokenRequests ==
    [kind : {"mint_token"}, mint : PubkeyTexts, destination : PubkeyTexts,
     authority : PubkeyTexts, amount : U64Samples]

SignMessageRequests ==
    [kind : {"sign_message"}, message : Messages, secret : SecretTexts]

VerifyMessageRequests ==
    [kind : {"verify_message"}, message : Messages, signature : SignatureTexts,
     pubkey : PubkeyTexts \cup {KeyText(OffCurveKey)}]

SendSolRequests ==
    [kind : {"send_sol"}, from : PubkeyTexts, to : PubkeyTexts, lamports : U64Samples]

SendTokenRequests ==
    [kind : {"send_token"}, destination : PubkeyTexts, mint : PubkeyTexts,
     owner : PubkeyTexts, amount : U64Samples]

Requests ==
    CreateTokenRequests \cup MintTokenRequests \cup SignMessageRequests
    \cup VerifyMessageRequests \cup SendSolRequests \cup SendTokenRequests

\* the requests sent while several are in flight: keys 1 and 2 and one text
\* that does not parse, one accepted and one rejected number per field
ConcTexts == {KeyText(1), KeyText(2), BadCharText}

ConcRequests ==
    [kind : {"create_token"}, mint_authority : {KeyText(1)}, mint : ConcTexts,
     decimals : {9, 19}]
    \cup [kind : {"mint_token"}, mint : {KeyText(1), BadCharText}, destination : {KeyText(2)},
          authority : {KeyText(1)}, amount : {U64Zero, U64One}]
    \cup [kind : {"sign_message"}, message : {"hi"},
          secret : {KeypairText(1, 1), KeyText(1)}]
    \cup [kind : {"verify_message"}, message : {"hi"},
          signature : {SignatureText(SigBlob(1, 1, "hi")), SignatureText(JunkBlob(64))},
          pubkey : {KeyText(1)}]
    \cup [kind : {"send_sol"}, from : {KeyText(1), BadCharText}, to : {KeyText(1), KeyText(2)},
          lamports : {U64Billion}]
    \cup [kind : {"send_token"}, destination : {KeyText(2)}, mint : {KeyText(1)},
          owner : {KeyText(1), KeyText(2)}, amount : {U64One}]

(***************************************************************************)
(* The server.  Every request in flight is one call of a handler; the call *)
(* owns its payload and its locals (the handler's parameters and let       *)
(* bindings), kept in the frame of the worker that runs it.                *)
(***************************************************************************)
NoRequest == [kind |-> "none"]
EmptyFrame == [payload |-> NoRequest, locals |-> None]

\* faulty variant: every call keeps its payload and locals in one static buffer
SharedSlot(w) == 1

\* the frame a call running on worker w uses: its own
Slot(w) == w

Init ==
    /\ pc = [w \in Workers |-> "idle"]
    /\ sent = [w \in Workers |-> NoRequest]
    /\ frame = [w \in Workers |-> EmptyFrame]
    /\ resp = [w \in Workers |-> None]
    /\ client = None

\* axum extracts Json(payload) and calls the route's handler
Receive(w, r) ==
    /\ pc[w] = "idle"
    /\ pc' = [pc EXCEPT ![w] = "validate"]
    /\ sent' = [sent EXCEPT ![w] = r]
    /\ frame' = [frame EXCEPT ![Slot(w)] = [payload |-> r, locals |-> None]]
    /\ UNCHANGED <<resp, client>>

\* the client sends back, unchanged, what sign_message last returned to it
ReceiveSigned(w) ==
    /\ client.some
    /\ Receive(w, [kind |-> "verify_message",
                   message |-> client.val.data.message,
                   signature |-> client.val.data.signature,
                   pubkey |-> client.val.data.public_key])

\* payload.validate()
Validate(w) ==
    /\ pc[w] = "validate"
    /\ IF ValidateOf(frame[Slot(w)].payload)
       THEN /\ pc' = [pc EXCEPT ![w] = "parse"]
            /\ UNCHANGED resp
       ELSE /\ pc' = [pc EXCEPT ![w] = "done"]
            /\ resp' = [resp EXCEPT ![w] = Some(ValidationError)]
    /\ UNCHANGED <<sent, frame, client>>

\* the base58 / base64 parsing of the fields, first failure returns
Parse(w) ==
    /\ pc[w] = "parse"
    /\ LET p == ParseOf(frame[Slot(w)].payload) IN
       IF p.ok
       THEN /\ pc' = [pc EXCEPT ![w] = "build"]
            /\ frame' = [frame EXCEPT ![Slot(w)].locals = Some(p.val)]
            /\ UNCHANGED resp
       ELSE /\ pc' = [pc EXCEPT ![w] = "done"]
            /\ resp' = [resp EXCEPT ![w] = Some(ApiError(p.err))]
            /\ UNCHANGED frame
    /\ UNCHANGED <<sent, client>>

\* the instruction or signature is computed and the success response built
Build(w) ==
    /\ pc[w] = "build"
    /\ pc' = [pc EXCEPT ![w] = "done"]
    /\ resp' = [resp EXCEPT ![w] =
                  Some(BuildOf(frame[Slot(w)].payload, frame[Slot(w)].locals.val))]
    /\ UNCHANGED <<sent, frame, client>>

\* generate_keypair: Keypair::new() draws a key from the OS random source
GenerateKeypair(w) ==
    /\ pc[w] = "idle"
    /\ \E k \in UserKeys :
          resp' = [resp EXCEPT ![w] = Some(generate_keypair(k))]
    /\ pc' = [pc EXCEPT ![w] = "done"]
    /\ sent' = [sent EXCEPT ![w] = [kind |-> "generate_keypair"]]
    /\ UNCHANGED <<frame, client>>

\* the response is written to the connection and the call's frame is dropped;
\* the client keeps what a successful sign_message returned
Reply(w) ==
    /\ pc[w] = "done"
    /\ client' = IF sent[w].kind = "sign_message" /\ resp[w].val.success
                 THEN Some([req |-> sent[w], data |-> resp[w].val.data.val])
                 ELSE client
    /\ pc' = [pc EXCEPT ![w] = "idle"]
    /\ sent' = [sent EXCEPT ![w] = NoRequest]
    /\ frame' = [frame EXCEPT ![Slot(w)] = EmptyFrame]
    /\ resp' = [resp EXCEPT ![w] = None]

\* one request at a time, any request
Next ==
    \/ \E r \in Requests : Receive(1, r)
    \/ ReceiveSigned(1)
    \/ Validate(1)
    \/ Parse(1)
    \/ Build(1)
    \/ GenerateKeypair(1)
    \/ Reply(1)

Spec == Init /\ [][Next]_vars

\* up to NWorkers requests in flight, their steps interleaved in any order
NextConc ==
    \E w \in Workers :
        \/ \E r \in ConcRequests : Receive(w, r)
        \/ ReceiveSigned(w)
        \/ Validate(w)
        \/ Parse(w)
        \/ Build(w)
        \/ GenerateKeypair(w)
        \/ Reply(w)

SpecConc == Init /\ [][NextConc]_vars

(***************************************************************************)
(* Properties.                                                             *)
(***************************************************************************)
\* worker w has finished a call of the handler `kind` and not yet replied
Done(w, kind) == pc[w] = "done" /\ sent[w].kind = kind

\* the response of worker w, and the data and accounts of a success
Response(w) == resp[w].val
Data(w) == resp[w].val.data.val
Accounts(w) == resp[w].val.data.val.accounts
\* the bytes that the instruction_data text of the response decodes to
DataBytes(w) == base64_to_bytes(resp[w].val.data.val.instruction_data).val.bytes

\* a failure carries an error and nothing else
IsFailure(w) ==
    /\ ~resp[w].val.success
    /\ ~resp[w].val.data.some
    /\ resp[w].val.error.some

\* a text that is the base58 form of a 32-byte key
Parsable(t) == t.enc = "base58" /\ t.wf /\ t.chars <= 44 /\ t.raw.n = 32

\* bytes b[from+1 .. from+8] are the little-endian form of the u64 v
IsLeU64At(b, from, v) ==
    \A i \in 1..4 : b[from + 2 * i - 1] + 256 * b[from + 2 * i] = v[i]

\* C1: a native transfer that passes validation and whose keys parse answers
\* with the system program id and 12 bytes of data: the little-endian u32 2
\* and the little-endian u64 lamports (1_000_000_000 gives
\* 2,0,0,0,0,202,154,59,0,0,0,0).
C1_NativeTransferLayout ==
    \A w \in Workers :
        (/\ Done(w, "send_sol")
         /\ Parsable(sent[w].from) /\ Parsable(sent[w].to)
         /\ sent[w].lamports # U64Zero)
        => /\ Response(w).success
           /\ Data(w).program_id = Text("base58", 32, TRUE, KeyBlob(SystemProgramId))
           /\ Len(DataBytes(w)) = 12
           /\ SubSeq(DataBytes(w), 1, 4) = <<2, 0, 0, 0>>
           /\ IsLeU64At(DataBytes(w), 4, sent[w].lamports)
           /\ (sent[w].lamports = U64Billion
               => DataBytes(w) = <<2, 0, 0, 0, 0, 202, 154, 59, 0, 0, 0, 0>>)

C1_Witness ==
    \E w \in Workers :
        /\ Done(w, "send_sol")
        /\ sent[w].from = KeyText(1) /\ sent[w].to = KeyText(2)
        /\ sent[w].lamports = U64Billion
        /\ Response(w).success
        /\ DataBytes(w) = <<2, 0, 0, 0, 0, 202, 154, 59, 0, 0, 0, 0>>

\* the discriminant byte of the token instruction a handler builds
TokenDiscriminant(kind) == IF kind = "mint_token" THEN 7 ELSE 3

\* the three key fields of a mint_token or send_token request all parse
TokenKeysParsable(r) ==
    IF r.kind = "mint_token"
    THEN Parsable(r.mint) /\ Parsable(r.destination) /\ Parsable(r.authority)
    ELSE Parsable(r.destination) /\ Parsable(r.mint) /\ Parsable(r.owner)

\* C2: mint-to and token transfer with amount 0 fail with an error and no
\* instruction; with amount >= 1 and parsable keys they succeed with 9 bytes
\* of data: the discriminant (7 mint-to, 3 transfer) and the little-endian
\* u64 amount.
C2_TokenAmount ==
    \A w \in Workers :
        (Done(w, "mint_token") \/ Done(w, "send_token"))
        => /\ sent[w].amount = U64Zero => IsFailure(w)
           /\ (sent[w].amount # U64Zero /\ TokenKeysParsable(sent[w]))
              => /\ Response(w).success
                 /\ Len(DataBytes(w)) = 9
                 /\ DataBytes(w)[1] = TokenDiscriminant(sent[w].kind)
                 /\ IsLeU64At(DataBytes(w), 1, sent[w].amount)

C2_Witness ==
    /\ Done(1, "mint_token")
    /\ sent[1].amount = U64One
    /\ Response(1).success
    /\ DataBytes(1) = <<7, 1, 0, 0, 0, 0, 0, 0, 0>>

\* the text of account i of the response is the request's field text t
IsAccount(w, i, t, is_signer) ==
    /\ Accounts(w)[i].pubkey = t
    /\ Accounts(w)[i].is_signer = is_signer

\* C3: a successful native transfer lists (from, signer, writable),
\* (to, not signer, writable); a successful mint-to lists (mint, writable,
\* not signer), (destination, writable, not signer), (authority, signer); a
\* successful token transfer lists a writable non-signer source, then
\* (destination, writable, not signer), then (owner, signer); nothing else
\* is listed.
C3_AccountOrder ==
    \A w \in Workers :
        (pc[w] = "done" /\ Response(w).success)
        => /\ sent[w].kind = "send_sol"
              => /\ Len(Accounts(w)) = 2
                 /\ IsAccount(w, 1, sent[w].from, TRUE) /\ Accounts(w)[1].is_writable
                 /\ IsAccount(w, 2, sent[w].to, FALSE) /\ Accounts(w)[2].is_writable
           /\ sent[w].kind = "mint_token"
              => /\ Len(Accounts(w)) = 3
                 /\ IsAccount(w, 1, sent[w].mint, FALSE) /\ Accounts(w)[1].is_writable
                 /\ IsAccount(w, 2, sent[w].destination, FALSE)
                 /\ Accounts(w)[2].is_writable
                 /\ IsAccount(w, 3, sent[w].authority, TRUE)
           /\ sent[w].kind = "send_token"
              => /\ Len(Accounts(w)) = 3
                 /\ Parsable(Accounts(w)[1].pubkey)
                 /\ ~Accounts(w)[1].is_signer /\ Accounts(w)[1].is_writable
                 /\ IsAccount(w, 2, sent[w].destination, FALSE)
                 /\ Accounts(w)[2].is_writable
                 /\ IsAccount(w, 3, sent[w].owner, TRUE)

C3_Witness ==
    /\ Done(1, "mint_token")
    /\ Response(1).success
    /\ sent[1].mint = KeyText(1)
    /\ sent[1].destination = KeyText(2)
    /\ sent[1].authority = KeyText(1)

\* C4: a successful initialize-mint response lists exactly one account,
\* (mint, not signer, writable), and none for the mint authority.
C4_InitMintSingleAccount ==
    \A w \in Workers :
        (Done(w, "create_token") /\ Response(w).success)
        => /\ Len(Accounts(w)) = 1
           /\ IsAccount(w, 1, sent[w].mint, FALSE)
           /\ Accounts(w)[1].is_writable

\* C5 as stated: decimals outside 0..9 are rejected, decimals in 0..9 with
\* parsable keys succeed.
C5_DecimalsZeroToNine ==
    \A w \in Workers :
        Done(w, "create_token")
        => /\ sent[w].decimals \notin 0..9 => IsFailure(w)
           /\ (sent[w].decimals \in 0..9
               /\ Parsable(sent[w].mint_authority) /\ Parsable(sent[w].mint))
              => Response(w).success

\* C5 amended: decimals outside 0..18 are rejected with an error and no
\* instruction, and every decimals in 0..18 with parsable keys succeeds.
C5_DecimalsZeroToEighteen ==
    \A w \in Workers :
        Done(w, "create_token")
        => /\ sent[w].decimals \notin 0..18 => IsFailure(w)
           /\ (sent[w].decimals \in 0..18
               /\ Parsable(sent[w].mint_authority) /\ Parsable(sent[w].mint))
              => /\ Response(w).success
                 /\ DataBytes(w)[2] = sent[w].decimals

C5_Witness ==
    /\ Done(1, "create_token")
    /\ sent[1].decimals = 18
    /\ Response(1).success

\* C6: no successful native or token transfer lists the same key as its
\* first (source) and second (destination) account.
C6_SourceDiffersFromDestination ==
    \A w \in Workers :
        ((Done(w, "send_sol") \/ Done(w, "send_token")) /\ Response(w).success)
        => Accounts(w)[1].pubkey # Accounts(w)[2].pubkey

\* C7: the source account of a successful token transfer is an address
\* derived from (owner, mint) and is never the owner key itself.
C7_SourceIsNotOwner ==
    \A w \in Workers :
        (Done(w, "send_token") /\ Response(w).success)
        => Accounts(w)[1].pubkey # sent[w].owner

\* the verify_message request of worker w is well formed: it passes the
\* validation, its key is 32 bytes and its signature is base64 of 64 bytes
WellFormedVerify(w) ==
    /\ Len(sent[w].message) >= 1
    /\ sent[w].signature.chars >= 1
    /\ sent[w].pubkey.chars >= 32
    /\ Parsable(sent[w].pubkey)
    /\ base64_to_bytes(sent[w].signature).ok
    /\ base64_to_bytes(sent[w].signature).val.n = 64

\* the signature of the request is the one seed k makes of the message, and
\* the key of the request is the public key k of that seed
IsGenuine(w) ==
    \E k \in UserKeys :
        /\ sent[w].pubkey.raw = KeyBlob(k)
        /\ base64_to_bytes(sent[w].signature).val = SigBlob(k, k, sent[w].message)

\* C8: a well-formed verify_message request always succeeds, with valid =
\* TRUE exactly when the signature is genuine; only a request that is not
\* well formed gets an error.
C8_VerifyNeverErrsOnBadSignature ==
    \A w \in Workers :
        Done(w, "verify_message")
        => /\ WellFormedVerify(w)
              => /\ Response(w).success
                 /\ Data(w).valid = IsGenuine(w)
           /\ ~Response(w).success => ~WellFormedVerify(w)

C8_Witness ==
    /\ Done(1, "verify_message")
    /\ WellFormedVerify(1)
    /\ sent[1].signature = SignatureText(SigBlob(2, 2, "hi"))
    /\ sent[1].pubkey = KeyText(1)
    /\ Response(1).success
    /\ Data(1).valid = FALSE

\* a secret text that is the base58 form of a seed and its own public key
IsValidKeypairText(t) ==
    \E k \in UserKeys : t.enc = "base58" /\ t.wf /\ t.raw = KeypairBlob(k, k)

\* the verify_message request of worker w repeats, unchanged, the message,
\* signature and public key that sign_message returned to the client
IsRoundTrip(w) ==
    /\ Done(w, "verify_message")
    /\ client.some
    /\ sent[w].message = client.val.data.message
    /\ sent[w].signature = client.val.data.signature
    /\ sent[w].pubkey = client.val.data.public_key

\* C9: what sign_message returns for a valid keypair, sent unchanged to
\* verify_message, is answered success with valid = TRUE; the signature
\* text is base64 of 64 bytes; and signing the same secret and message again
\* returns the same signature.
C9_SignVerifyRoundTrip ==
    /\ \A w \in Workers :
          (IsRoundTrip(w) /\ IsValidKeypairText(client.val.req.secret))
          => Response(w).success /\ Data(w).valid
    /\ client.some
       => /\ client.val.data.signature.enc = "base64"
          /\ client.val.data.signature.raw.n = 64
          /\ Len(client.val.req.message) >= 1
    /\ \A w \in Workers :
          (Done(w, "sign_message") /\ client.some /\ sent[w] = client.val.req)
          => Response(w).success
             /\ Data(w).signature = client.val.data.signature

C9_Witness ==
    /\ IsRoundTrip(1)
    /\ client.val.req.secret = KeypairText(2, 2)
    /\ Response(1).success
    /\ Data(1).valid

\* C10: whatever else is in flight, a finished request other than key
\* generation has the response that its handler gives to it alone.
C10_RequestsIndependent ==
    \A w \in Workers :
        (pc[w] = "done" /\ sent[w].kind # "generate_keypair")
        => resp[w] = Some(Respond(sent[w]))

C10_Witness ==
    /\ pc[1] = "done" /\ pc[2] = "done"
    /\ sent[1].kind = "send_sol" /\ Response(1).success
    /\ sent[2].kind = "mint_token" /\ ~Response(2).success

\* the key fields of a request in the order its handler parses them, each
\* with the error label the handler gives to its failure
KeyFields(r) ==
    CASE r.kind = "create_token" ->
            <<<<"Invalid mint authority", r.mint_authority>>, <<"Invalid mint", r.mint>>>>
      [] r.kind = "mint_token" ->
            <<<<"Invalid mint", r.mint>>, <<"Invalid destination", r.destination>>,
              <<"Invalid authority", r.authority>>>>
      [] r.kind = "send_sol" ->
            <<<<"Invalid from address", r.from>>, <<"Invalid to address", r.to>>>>
      [] r.kind = "send_token" ->
            <<<<"Invalid destination", r.destination>>, <<"Invalid mint", r.mint>>,
              <<"Invalid owner", r.owner>>>>
      [] r.kind = "verify_message" -> <<<<"Invalid public key", r.pubkey>>>>
      [] OTHER -> <<>>

\* the request passes the length and range validation of its fields
PassesValidation(r) ==
    /\ \A i \in 1..Len(KeyFields(r)) :
          KeyFields(r)[i][2].chars >= 32 /\ KeyFields(r)[i][2].chars <= 44
    /\ r.kind = "create_token" => r.decimals \in 0..18
    /\ r.kind \in {"mint_token", "send_token"} => r.amount # U64Zero
    /\ r.kind = "send_sol" => r.lamports # U64Zero
    /\ r.kind \in {"sign_message", "verify_message"} => Len(r.message) >= 1
    /\ r.kind = "sign_message" => r.secret.chars >= 32
    /\ r.kind = "verify_message" => r.signature.chars >= 1

\* key field i of r is the first one that does not parse
IsFirstUnparsable(r, i) ==
    /\ ~Parsable(KeyFields(r)[i][2])
    /\ \A j \in 1..(i - 1) : Parsable(KeyFields(r)[j][2])

\* the response of worker w is a failure whose message starts with label
FailsWith(w, label) == IsFailure(w) /\ Response(w).error.val[1] = label

\* C11: every response is all-or-nothing: success iff data is present iff
\* error is absent, a success carries its whole result and a failure only a
\* message; a request that fails validation gets the validation error,
\* whatever its keys are, and one that passes it gets the error of the first
\* field, in the handler's parse order, that does not parse.
C11_AllOrNothing ==
    \A w \in Workers :
        pc[w] = "done"
        => /\ Response(w).success = Response(w).data.some
           /\ Response(w).success = ~Response(w).error.some
           /\ (Response(w).success
               /\ sent[w].kind \in {"create_token", "mint_token", "send_sol", "send_token"})
              => DOMAIN Data(w) = {"program_id", "accounts", "instruction_data"}
           /\ sent[w].kind # "generate_keypair"
              => /\ ~PassesValidation(sent[w]) => FailsWith(w, "Validation error")
                 /\ PassesValidation(sent[w])
                    => \A i \in 1..Len(KeyFields(sent[w])) :
                          IsFirstUnparsable(sent[w], i)
                          => FailsWith(w, KeyFields(sent[w])[i][1])
                 /\ (PassesValidation(sent[w])
                     /\ \A i \in 1..Len(KeyFields(sent[w])) :
                           Parsable(KeyFields(sent[w])[i][2]))
                    => \/ Response(w).success
                       \/ /\ sent[w].kind = "sign_message"
                          /\ FailsWith(w, "Invalid secret key")
                       \/ /\ sent[w].kind = "verify_message"
                          /\ \/ FailsWith(w, "Invalid signature")
                             \/ FailsWith(w, "Invalid signature format")

\* a token transfer whose destination and owner both fail to parse: the
\* destination, parsed first, is the one reported
C11_Witness ==
    /\ Done(1, "send_token")
    /\ PassesValidation(sent[1])
    /\ sent[1].destination = WrongSizeText
    /\ sent[1].mint = KeyText(1)
    /\ sent[1].owner = BadCharText
    /\ FailsWith(1, "Invalid destination")

====
